---- MODULE Spec2Model ----
(***************************************************************************)
(* A model of src/src/writer.rs: VdbWriter::new (archive header and UUID), *)
(* VdbWriter::write (archive metadata, grid count, grid name resolution,   *)
(* descriptor creation) and VdbWriter::write_metadata with its helpers     *)
(* write_name, write_string and write_i_vec3.                              *)
(*                                                                         *)
(* Text is a sequence of Unicode code points, the stream a sequence of     *)
(* bytes.  A String's len() is its UTF-8 byte length, as in Rust.          *)
(***************************************************************************)
EXTENDS Integers, Sequences, FiniteSets, TLC

VARIABLES
    pc,            \* position in new / write / write_metadata
    stream,        \* bytes accepted by the underlying writer W so far
    faulty,        \* whether W is a sink whose operations can fail
    ioFailed,      \* whether an operation on W has returned Err
    is_seekeable,  \* new's parameter
    uuid_str,      \* new's local uuid_str: [char; 37]
    rng_i,         \* new's loop index i over the four random words
    grids,         \* write's parameter grids
    metadata,      \* the Metadata being encoded, in iteration order
    metadata_seek, \* write's local metadata_seek
    caller,        \* who called write_metadata: "write" or "codec"
    md_i,          \* write_metadata's position in metadata.0.into_iter()
    name_count,    \* write's local name_count
    unique_names,  \* write's local unique_names
    tree_map,      \* write's local tree_map
    grid_i,        \* write's position in the second grids.iter()
    name,          \* write's local name
    n,             \* write's local n
    gds,           \* the descriptors gd built so far, one per loop iteration
    ret            \* what the call returned: "none" until it returns

vars == << pc, stream, faulty, ioFailed, is_seekeable, uuid_str, rng_i, grids,
           metadata, metadata_seek, caller, md_i, name_count, unique_names,
           tree_map, grid_i, name, n, gds, ret >>

(***************************************************************************)
(* Bounds of the model.                                                    *)
(***************************************************************************)
MaxGrids == 3
MaxEntries == 2
NumRand == 4

(***************************************************************************)
(* Program constants.                                                      *)
(***************************************************************************)
OPENVDB_MAJOR_VERSION == 11
OPENVDB_MINOR_VERSION == 0
OPENVDB_FILE_VERSION == 224
\* usize::to_le_bytes yields 8 bytes on a 64-bit target.
USIZE_BYTES == 8
\* MAGIC.to_le_bytes() for MAGIC = 0x2042445600000000.
MAGIC_LE_BYTES == << 0, 0, 0, 0, 86, 68, 66, 32 >>
\* The array length 16 * 2 + 4 + 1.
UUID_STR_LEN == 37
\* The number of array elements written to the stream, 16 * 2 + 4.
UUID_FIELD_LEN == 36

(***************************************************************************)
(* Bytes.                                                                  *)
(***************************************************************************)
RECURSIVE LE(_, _)
\* The w low-order bytes of a non-negative integer, least significant first.
LE(v, w) == IF w = 0 THEN << >> ELSE << v % 256 >> \o LE(v \div 256, w - 1)

UsizeBytes(v) == LE(v, USIZE_BYTES)
U32Bytes(v) == LE(v, 4)

\* i32::to_le_bytes: two's complement, for v in -2^31 .. 2^31 - 1.
I32Bytes(v) ==
    IF v >= 0 THEN LE(v, 4)
    ELSE LET u == (v + 2147483647) + 1
         IN  << u % 256, (u \div 256) % 256, (u \div 65536) % 256,
                (u \div 16777216) + 128 >>

\* i64::to_le_bytes, for v in the i32 range: the sign extends into the
\* four high bytes.
I64Bytes(v) ==
    I32Bytes(v) \o (IF v < 0 THEN << 255, 255, 255, 255 >> ELSE << 0, 0, 0, 0 >>)

RECURSIVE Flatten(_)
Flatten(chunks) ==
    IF chunks = << >> THEN << >> ELSE Head(chunks) \o Flatten(Tail(chunks))

(***************************************************************************)
(* Text.                                                                   *)
(***************************************************************************)
\* The number of bytes of a code point's UTF-8 encoding.
Utf8Len(c) == IF c < 128 THEN 1 ELSE IF c < 2048 THEN 2 ELSE IF c < 65536 THEN 3 ELSE 4

RECURSIVE StrLen(_)
\* String::len(): the length of the text in bytes.
StrLen(s) == IF s = << >> THEN 0 ELSE Utf8Len(Head(s)) + StrLen(Tail(s))

\* `c as u8`: the low eight bits of the code point.
CharAsU8(c) == c % 256

TAG_STRING == << 115, 116, 114, 105, 110, 103 >>
TAG_BOOL == << 98, 111, 111, 108 >>
TAG_INT32 == << 105, 110, 116, 51, 50 >>
TAG_INT64 == << 105, 110, 116, 54, 52 >>
TAG_FLOAT == << 102, 108, 111, 97, 116 >>
TAG_VEC3I == << 118, 101, 99, 51, 105 >>
\* "is_saved_as_half_float"
HALF_FLOAT_KEY ==
    << 105, 115, 95, 115, 97, 118, 101, 100, 95, 97, 115, 95, 104, 97, 108,
       102, 95, 102, 108, 111, 97, 116 >>

RECURSIVE ToDec(_)
\* The decimal digits of a natural number.
ToDec(k) == IF k < 10 THEN << 48 + k >> ELSE ToDec(k \div 10) \o << 48 + (k % 10) >>

\* GridDescriptor::add_suffix: the name with the number appended.
add_suffix(nm, k) == nm \o ToDec(k)

(***************************************************************************)
(* The underlying writer W.  An operation either takes all its bytes or    *)
(* returns Err; a sink that has returned Err keeps returning Err.  Each    *)
(* element of chunks is the buffer of one write call, in call order.       *)
(***************************************************************************)
Emit(chunks) ==
    IF ~faulty
    THEN /\ stream' = stream \o Flatten(chunks)
         /\ ioFailed' = ioFailed
    ELSE IF ioFailed
    THEN /\ stream' = stream
         /\ ioFailed' = TRUE
    ELSE \/ /\ stream' = stream \o Flatten(chunks)
            /\ ioFailed' = FALSE
         \/ \E k \in 0 .. (Len(chunks) - 1) :
                /\ stream' = stream \o Flatten(SubSeq(chunks, 1, k))
                /\ ioFailed' = TRUE

\* write_string: one write_all per index i in 0..string.len(), each of the
\* byte `string.chars().nth(i).unwrap() as u8`.
StringChunks(s) == [ k \in 1 .. Len(s) |-> << CharAsU8(s[k]) >> ]

\* write_string reaches an index past the last char, where nth(i) is None
\* and unwrap panics, when the text has more bytes than chars.
StringPanics(s) == StrLen(s) > Len(s)

\* write_name: the length, then write_string.
NameChunks(s) == << UsizeBytes(StrLen(s)) >> \o StringChunks(s)

(***************************************************************************)
(* MetadataValue: << variant, payload... >>.                              *)
(***************************************************************************)
Variant(value) == value[1]

TypeName(value) ==
    CASE Variant(value) = "String" -> TAG_STRING
      [] Variant(value) = "Bool" -> TAG_BOOL
      [] Variant(value) = "I32" -> TAG_INT32
      [] Variant(value) = "I64" -> TAG_INT64
      [] Variant(value) = "Float" -> TAG_FLOAT
      [] Variant(value) = "Vec3i" -> TAG_VEC3I
      [] Variant(value) = "Unknown" -> value[2]

\* DataLen with the encoded width in place of zero.
DataLenWithWidths(value) ==
    CASE Variant(value) = "String" -> StrLen(value[2])
      [] Variant(value) = "Unknown" -> Len(value[3])
      [] Variant(value) = "Bool" -> 1
      [] Variant(value) = "I32" -> 4
      [] Variant(value) = "I64" -> 8
      [] Variant(value) = "Float" -> 4
      [] Variant(value) = "Vec3i" -> 12

DataLen(value) ==
    CASE Variant(value) = "String" -> StrLen(value[2])
      [] Variant(value) = "Unknown" -> Len(value[3])
      [] OTHER -> 0

\* The write calls of the payload match; a Float is held as its IEEE-754
\* bit pattern.
PayloadChunks(value) ==
    CASE Variant(value) = "String" -> StringChunks(value[2])
      [] Variant(value) = "Bool" -> << << IF value[2] THEN 1 ELSE 0 >> >>
      [] Variant(value) = "I32" -> << I32Bytes(value[2]) >>
      [] Variant(value) = "I64" -> << I64Bytes(value[2]) >>
      [] Variant(value) = "Float" -> << U32Bytes(value[2]) >>
      [] Variant(value) = "Vec3i" ->
            << I32Bytes(value[2]), I32Bytes(value[3]), I32Bytes(value[4]) >>
      [] Variant(value) = "Unknown" -> << value[3] >>

PayloadPanics(value) == Variant(value) = "String" /\ StringPanics(value[2])

(***************************************************************************)
(* VdbWriter::write_metadata.  Every result of a write is dropped, so the  *)
(* codec goes on after a failed write; the only way out early is a panic.  *)
(***************************************************************************)
EntryKey(k) == metadata[k][1]
EntryValue(k) == metadata[k][2]

\* Where control goes when write_metadata returns.
AfterMetadata == IF caller = "write" THEN "w_gridcount" ELSE "done"

MdCount ==
    /\ pc = "md_count"
    /\ Emit(<< UsizeBytes(Len(metadata)) >>)
    /\ md_i' = 1
    /\ pc' = IF Len(metadata) = 0 THEN AfterMetadata ELSE "md_name"
    /\ ret' = IF Len(metadata) = 0 /\ caller = "codec" THEN "unit" ELSE ret
    /\ UNCHANGED << faulty, is_seekeable, uuid_str, rng_i, grids, metadata,
                    metadata_seek, caller, name_count, unique_names, tree_map,
                    grid_i, name, n, gds >>

MdName ==
    /\ pc = "md_name"
    /\ Emit(NameChunks(EntryKey(md_i)))
    /\ pc' = IF ~ioFailed' /\ StringPanics(EntryKey(md_i)) THEN "panic" ELSE "md_type"
    /\ UNCHANGED << faulty, is_seekeable, uuid_str, rng_i, grids, metadata,
                    metadata_seek, caller, md_i, name_count, unique_names,
                    tree_map, grid_i, name, n, gds, ret >>

MdType ==
    /\ pc = "md_type"
    /\ Emit(NameChunks(TypeName(EntryValue(md_i))))
    /\ pc' = IF ~ioFailed' /\ StringPanics(TypeName(EntryValue(md_i)))
             THEN "panic" ELSE "md_len"
    /\ UNCHANGED << faulty, is_seekeable, uuid_str, rng_i, grids, metadata,
                    metadata_seek, caller, md_i, name_count, unique_names,
                    tree_map, grid_i, name, n, gds, ret >>

MdLen ==
    /\ pc = "md_len"
    /\ Emit(<< UsizeBytes(DataLen(EntryValue(md_i))) >>)
    /\ pc' = "md_payload"
    /\ UNCHANGED << faulty, is_seekeable, uuid_str, rng_i, grids, metadata,
                    metadata_seek, caller, md_i, name_count, unique_names,
                    tree_map, grid_i, name, n, gds, ret >>

MdPayload ==
    /\ pc = "md_payload"
    /\ Emit(PayloadChunks(EntryValue(md_i)))
    /\ IF ~ioFailed' /\ PayloadPanics(EntryValue(md_i))
       THEN /\ pc' = "panic"
            /\ UNCHANGED << md_i, ret >>
       ELSE /\ md_i' = md_i + 1
            /\ pc' = IF md_i < Len(metadata) THEN "md_name" ELSE AfterMetadata
            /\ ret' = IF md_i = Len(metadata) /\ caller = "codec" THEN "unit" ELSE ret
    /\ UNCHANGED << faulty, is_seekeable, uuid_str, rng_i, grids, metadata,
                    metadata_seek, caller, name_count, unique_names, tree_map,
                    grid_i, name, n, gds >>

(***************************************************************************)
(* VdbWriter::write.  name_count and tree_map are declared without an      *)
(* initial value; both start as the empty map.  Nothing is inserted into   *)
(* tree_map, and gd is dropped at the end of each iteration: gds keeps     *)
(* the descriptors built so that they can be inspected.                    *)
(***************************************************************************)
RECURSIVE CountFrom(_, _, _)
\* The first pass over grids.iter(): the number of grids of each name.
CountFrom(gs, k, nc) ==
    IF k > Len(gs) THEN nc
    ELSE LET g_name == gs[k].name
         IN  CountFrom(gs, k + 1,
                       IF g_name \in DOMAIN nc
                       THEN [nc EXCEPT ![g_name] = @ + 1]
                       ELSE nc @@ (g_name :> 1))

CountNames(gs) == CountFrom(gs, 1, << >>)

\* NeedsSuffix with the count compared by >= in place of >.
NeedsSuffixFromOne(nm, nc) == nm = << >> \/ nc[nm] >= 1

\* The test `name.is_empty() || name_count[&name] > 1`.
NeedsSuffix(nm, nc) == nm = << >> \/ nc[nm] > 1

\* The value of name before the while loop.
InitialName(nm, nc) == IF NeedsSuffix(nm, nc) THEN add_suffix(nm, 0) ELSE nm

\* NameTaken without the membership test.
NameTakenNever(nm, names) == FALSE

\* The while condition `unique_names.contains(&name)`.
NameTaken(nm, names) == nm \in names

IsHalfFloat(g) == g.half

\* NewDescriptor with grid_pos taken from the stream position.
NewDescriptorWithPosition(nm, g) ==
    [ name |-> nm,
      file_version |-> OPENVDB_FILE_VERSION,
      instance_parent |-> << >>,
      grid_type |-> g.grid_type,
      grid_pos |-> Len(stream),
      block_pos |-> 0,
      end_pos |-> 0,
      compression |-> "None",
      meta_data |-> IF IsHalfFloat(g)
                    THEN << << HALF_FLOAT_KEY, << "Bool", TRUE >> >> >>
                    ELSE << >> ]

\* The descriptor gd after the is_half_float insertion.
NewDescriptor(nm, g) ==
    [ name |-> nm,
      file_version |-> OPENVDB_FILE_VERSION,
      instance_parent |-> << >>,
      grid_type |-> g.grid_type,
      grid_pos |-> 0,
      block_pos |-> 0,
      end_pos |-> 0,
      compression |-> "None",
      meta_data |-> IF IsHalfFloat(g)
                    THEN << << HALF_FLOAT_KEY, << "Bool", TRUE >> >> >>
                    ELSE << >> ]

\* self.writer.seek(SeekFrom::Current(0)); its result is kept and not read.
WSeek ==
    /\ pc = "w_seek"
    /\ \/ /\ ~ioFailed
          /\ metadata_seek' = << "Ok", Len(stream) >>
          /\ ioFailed' = FALSE
       \/ /\ faulty
          /\ metadata_seek' = << "Err" >>
          /\ ioFailed' = TRUE
    /\ caller' = "write"
    /\ pc' = "md_count"
    /\ UNCHANGED << stream, faulty, is_seekeable, uuid_str, rng_i, grids,
                    metadata, md_i, name_count, unique_names, tree_map, grid_i,
                    name, n, gds, ret >>

\* The grid count, then the first pass and the empty unique_names.
WGridCount ==
    /\ pc = "w_gridcount"
    /\ Emit(<< UsizeBytes(Len(grids)) >>)
    /\ name_count' = CountNames(grids)
    /\ unique_names' = {}
    /\ grid_i' = 1
    /\ pc' = IF Len(grids) = 0 THEN "w_ret" ELSE "w_resolve"
    /\ UNCHANGED << faulty, is_seekeable, uuid_str, rng_i, grids, metadata,
                    metadata_seek, caller, md_i, tree_map, name, n, gds, ret >>

\* The head of one iteration of the second pass, up to `let mut n = 1`.
WResolve ==
    /\ pc = "w_resolve"
    /\ name' = InitialName(grids[grid_i].name, name_count)
    /\ n' = 1
    /\ pc' = "w_loop"
    /\ UNCHANGED << stream, faulty, ioFailed, is_seekeable, uuid_str, rng_i,
                    grids, metadata, metadata_seek, caller, md_i, name_count,
                    unique_names, tree_map, grid_i, gds, ret >>

\* One execution of the while body; n is not assigned in it.
WRetry ==
    /\ pc = "w_loop"
    /\ NameTaken(name, unique_names)
    /\ name' = add_suffix(grids[grid_i].name, n)
    /\ UNCHANGED << pc, stream, faulty, ioFailed, is_seekeable, uuid_str,
                    rng_i, grids, metadata, metadata_seek, caller, md_i,
                    name_count, unique_names, tree_map, grid_i, n, gds, ret >>

\* The loop exit: the insert, the descriptor, and tree_map.values(), which
\* reads the map and changes nothing.
WDescriptor ==
    /\ pc = "w_loop"
    /\ ~NameTaken(name, unique_names)
    /\ unique_names' = unique_names \cup { name }
    /\ gds' = Append(gds, NewDescriptor(name, grids[grid_i]))
    /\ grid_i' = grid_i + 1
    /\ pc' = IF grid_i < Len(grids) THEN "w_resolve" ELSE "w_ret"
    /\ UNCHANGED << stream, faulty, ioFailed, is_seekeable, uuid_str, rng_i,
                    grids, metadata, metadata_seek, caller, md_i, name_count,
                    tree_map, name, n, ret >>

\* The final expression `true`.
WReturn ==
    /\ pc = "w_ret"
    /\ ret' = "true"
    /\ pc' = "done"
    /\ UNCHANGED << stream, faulty, ioFailed, is_seekeable, uuid_str, rng_i,
                    grids, metadata, metadata_seek, caller, md_i, name_count,
                    unique_names, tree_map, grid_i, name, n, gds >>

(***************************************************************************)
(* VdbWriter::new.  A u32 is held as << high 16 bits, low 16 bits >>.      *)
(* Every write is followed by unwrap(), so a failed write panics.          *)
(***************************************************************************)
\* c & 0xf
LowNibble(v) == v[2] % 16

\* v >>= 4
ShiftRight4(v) == << v[1] \div 16, (v[2] \div 16) + ((v[1] % 16) * 4096) >>

\* to_hex with the digit test c <= 10 in place of c < 10.
to_hex_digit_for_ten(v) ==
    LET c == LowNibble(v)
    IN  IF c <= 10 THEN 48 + c ELSE (c - 10) + 65

to_hex(v) ==
    LET c == LowNibble(v)
    IN  IF c < 10 THEN 48 + c ELSE (c - 10) + 65

RECURSIVE ShiftRight4Times(_, _)
ShiftRight4Times(v, j) == IF j = 0 THEN v ELSE ShiftRight4Times(ShiftRight4(v), j - 1)

\* The inner loop over j in 0..8 for word i: uuid_str[i * 8 + j] = to_hex(v).
FillWord(u, i, v) ==
    [ p \in 1 .. Len(u) |->
        IF p - 1 >= i * 8 /\ p - 1 < i * 8 + 8
        THEN to_hex(ShiftRight4Times(v, (p - 1) - i * 8))
        ELSE u[p] ]

\* uuid_str.swap(a, b), on array indices from 0.
Swap(u, a, b) ==
    [ p \in 1 .. Len(u) |->
        IF p = a + 1 THEN u[b + 1] ELSE IF p = b + 1 THEN u[a + 1] ELSE u[p] ]

\* The four hyphens, the four swaps and the terminator.
InsertHyphens(u) ==
    LET h == [ p \in 1 .. Len(u) |-> IF p - 1 >= 32 /\ p - 1 < 36 THEN 45 ELSE u[p] ]
        s1 == Swap(h, 32, 8)
        s2 == Swap(s1, 33, 13)
        s3 == Swap(s2, 34, 18)
        s4 == Swap(s3, 35, 23)
    IN  [ s4 EXCEPT ![UUID_STR_LEN] = 0 ]

\* The buffers of the five header writes.
HeaderChunks(seekable) ==
    << MAGIC_LE_BYTES,
       U32Bytes(OPENVDB_FILE_VERSION),
       U32Bytes(OPENVDB_MAJOR_VERSION),
       U32Bytes(OPENVDB_MINOR_VERSION),
       << IF seekable THEN 1 ELSE 0 >> >>

\* The buffers of the loop `for i in 0..(16 * 2 + 4)`.
UuidChunks(u) == [ p \in 1 .. UUID_FIELD_LEN |-> << CharAsU8(u[p]) >> ]

\* The values rng.gen() is drawn from.
RandTable == << << 0, 0 >>, << 65535, 65535 >>, << 30292, 12816 >>, << 65244, 47768 >> >>
RandVal(k) ==
    IF k <= Len(RandTable) THEN RandTable[k]
    ELSE << (k * 30293) % 65536, (k * 47769) % 65536 >>
RandVals == { RandVal(k) : k \in 1 .. NumRand }

NewHeader ==
    /\ pc = "n_header"
    /\ Emit(HeaderChunks(is_seekeable))
    /\ IF ioFailed'
       THEN pc' = "panic" /\ UNCHANGED << uuid_str, rng_i >>
       ELSE /\ pc' = "n_rng"
            /\ uuid_str' = [ p \in 1 .. UUID_STR_LEN |-> 48 ]
            /\ rng_i' = 0
    /\ UNCHANGED << faulty, is_seekeable, grids, metadata, metadata_seek,
                    caller, md_i, name_count, unique_names, tree_map, grid_i,
                    name, n, gds, ret >>

\* One iteration of `for i in 0..4`.
NewRandom ==
    /\ pc = "n_rng"
    /\ \E v \in RandVals : uuid_str' = FillWord(uuid_str, rng_i, v)
    /\ rng_i' = rng_i + 1
    /\ pc' = IF rng_i + 1 < 4 THEN "n_rng" ELSE "n_hyphens"
    /\ UNCHANGED << stream, faulty, ioFailed, is_seekeable, grids, metadata,
                    metadata_seek, caller, md_i, name_count, unique_names,
                    tree_map, grid_i, name, n, gds, ret >>

NewHyphens ==
    /\ pc = "n_hyphens"
    /\ uuid_str' = InsertHyphens(uuid_str)
    /\ pc' = "n_uuid"
    /\ UNCHANGED << stream, faulty, ioFailed, is_seekeable, rng_i, grids,
                    metadata, metadata_seek, caller, md_i, name_count,
                    unique_names, tree_map, grid_i, name, n, gds, ret >>

\* The 36 writes of the UUID field, then Ok(Self { writer, uuid }).
NewWriteUuid ==
    /\ pc = "n_uuid"
    /\ Emit(UuidChunks(uuid_str))
    /\ IF ioFailed'
       THEN pc' = "panic" /\ ret' = ret
       ELSE pc' = "done" /\ ret' = "ok"
    /\ UNCHANGED << faulty, is_seekeable, uuid_str, rng_i, grids, metadata,
                    metadata_seek, caller, md_i, name_count, unique_names,
                    tree_map, grid_i, name, n, gds >>

(***************************************************************************)
(* Inputs.                                                                 *)
(***************************************************************************)
SeqsUpTo(S, k) == UNION { [ 1 .. m -> S ] : m \in 0 .. k }

\* Requested grid names: "", "a" and "a1".
GridNames == { << >>, << 97 >>, << 97, 49 >> }
TreeIds == { 1, 2 }
GridTypes == { << 102 >> }
Grids == [ name : GridNames, grid_type : GridTypes, tree : TreeIds, half : BOOLEAN ]

\* Metadata names: "", "k" and "é".
MetaKeys == { << >>, << 107 >>, << 233 >> }
\* An opaque value carries a type name that is none of the six built-in
\* type names: "blob".
BlobTag == << 98, 108, 111, 98 >>
MetaValues ==
    { << "String", << >> >>, << "String", << 97, 98 >> >>, << "String", << 233 >> >>,
      << "Bool", TRUE >>, << "Bool", FALSE >>,
      << "I32", -2 >>, << "I64", 300 >>, << "Float", 1065353216 >>,
      << "Vec3i", 1, -1, 65536 >>,
      << "Unknown", BlobTag, << >> >>, << "Unknown", BlobTag, << 7, 255 >> >> }
MetaEntries == MetaKeys \X MetaValues

\* A mapping holds each name once.
Metadatas ==
    { m \in SeqsUpTo(MetaEntries, MaxEntries) :
        \A a, b \in 1 .. Len(m) : a # b => m[a][1] # m[b][1] }

\* The archive metadata the write specifications draw from.
ArchiveMetadatas == { << >>, << << << 107 >>, << "Bool", TRUE >> >> >> }

\* The stream a successful new leaves behind.
HeaderStream ==
    LET u0 == [ p \in 1 .. UUID_STR_LEN |-> 48 ]
        u1 == FillWord(u0, 0, RandVal(3))
        u2 == FillWord(u1, 1, RandVal(4))
        u3 == FillWord(u2, 2, RandVal(1))
        u4 == FillWord(u3, 3, RandVal(2))
    IN  Flatten(HeaderChunks(TRUE)) \o Flatten(UuidChunks(InsertHyphens(u4)))

(***************************************************************************)
(* Specifications.                                                         *)
(***************************************************************************)
Idle ==
    /\ uuid_str = << >>
    /\ rng_i = 0
    /\ metadata_seek = << "None" >>
    /\ md_i = 0
    /\ name_count = << >>
    /\ unique_names = {}
    /\ tree_map = << >>
    /\ grid_i = 0
    /\ name = << >>
    /\ n = 0
    /\ gds = << >>
    /\ ret = "none"
    /\ ioFailed = FALSE

\* A call of write on a writer over a sink that cannot fail.
Init ==
    /\ pc = "w_seek"
    /\ stream = HeaderStream
    /\ faulty = FALSE
    /\ is_seekeable = TRUE
    /\ grids \in SeqsUpTo(Grids, MaxGrids)
    /\ metadata \in ArchiveMetadatas
    /\ caller = "write"
    /\ Idle

\* A call of write on a writer over a sink that can fail.
InitFaulty ==
    /\ pc = "w_seek"
    /\ stream = HeaderStream
    /\ faulty = TRUE
    /\ is_seekeable = TRUE
    /\ grids \in SeqsUpTo(Grids, MaxGrids - 1)
    /\ metadata \in ArchiveMetadatas
    /\ caller = "write"
    /\ Idle

\* A call of write_metadata on an empty sink that cannot fail.
InitCodec ==
    /\ pc = "md_count"
    /\ stream = << >>
    /\ faulty = FALSE
    /\ is_seekeable = TRUE
    /\ grids = << >>
    /\ metadata \in Metadatas
    /\ caller = "codec"
    /\ Idle

\* A call of new.
InitNew ==
    /\ pc = "n_header"
    /\ stream = << >>
    /\ faulty \in BOOLEAN
    /\ is_seekeable \in BOOLEAN
    /\ grids = << >>
    /\ metadata = << >>
    /\ caller = "new"
    /\ Idle

NextCodec == MdCount \/ MdName \/ MdType \/ MdLen \/ MdPayload

Next ==
    \/ WSeek \/ MdCount \/ MdName \/ MdType \/ MdLen \/ MdPayload
    \/ WGridCount \/ WResolve \/ WRetry \/ WDescriptor \/ WReturn

NextNew == NewHeader \/ NewRandom \/ NewHyphens \/ NewWriteUuid

Spec == Init /\ [][Next]_vars
SpecFaulty == InitFaulty /\ [][Next]_vars
SpecCodec == InitCodec /\ [][NextCodec]_vars
SpecNew == InitNew /\ [][NextNew]_vars

(***************************************************************************)
(* A reader of the metadata layout: count, then per entry the name, the    *)
(* type name, the declared length and the payload, whose width the type    *)
(* name fixes for the six built-in types.  Every reader returns            *)
(* << "Ok", value, next position >> or << "Err" >>.                        *)
(***************************************************************************)
Has(b, p, w) == p + w - 1 <= Len(b)

ReadUsize(b, p) ==
    IF ~Has(b, p, USIZE_BYTES) THEN << "Err" >>
    ELSE IF b[p + 3] >= 128 \/ \E k \in 4 .. 7 : b[p + k] # 0 THEN << "Err" >>
    ELSE << "Ok",
            b[p] + 256 * b[p + 1] + 65536 * b[p + 2] + 16777216 * b[p + 3],
            p + USIZE_BYTES >>

ReadI32(b, p) ==
    IF ~Has(b, p, 4) THEN << "Err" >>
    ELSE LET low == b[p] + 256 * b[p + 1] + 65536 * b[p + 2]
         IN  IF b[p + 3] < 128
             THEN << "Ok", low + 16777216 * b[p + 3], p + 4 >>
             ELSE << "Ok", ((low + 16777216 * (b[p + 3] - 128)) - 2147483647) - 1, p + 4 >>

ReadI64(b, p) ==
    IF ~Has(b, p, 8) THEN << "Err" >>
    ELSE LET lo == ReadI32(b, p)
             ext == IF lo[2] < 0 THEN 255 ELSE 0
         IN  IF \A k \in 4 .. 7 : b[p + k] = ext
             THEN << "Ok", lo[2], p + 8 >>
             ELSE << "Err" >>

RECURSIVE Utf8Decode(_)
\* The code points of UTF-8 bytes, for one- and two-byte encodings.
Utf8Decode(bytes) ==
    IF bytes = << >> THEN << "Ok", << >> >>
    ELSE IF bytes[1] < 128
    THEN LET r == Utf8Decode(Tail(bytes))
         IN  IF r[1] = "Ok" THEN << "Ok", << bytes[1] >> \o r[2] >> ELSE << "Err" >>
    ELSE IF bytes[1] >= 192 /\ bytes[1] < 224 /\ Len(bytes) >= 2
            /\ bytes[2] >= 128 /\ bytes[2] < 192
    THEN LET r == Utf8Decode(Tail(Tail(bytes)))
         IN  IF r[1] = "Ok"
             THEN << "Ok", << (bytes[1] - 192) * 64 + (bytes[2] - 128) >> \o r[2] >>
             ELSE << "Err" >>
    ELSE << "Err" >>

ReadText(b, p, w) ==
    IF ~Has(b, p, w) THEN << "Err" >>
    ELSE LET r == Utf8Decode(SubSeq(b, p, p + w - 1))
         IN  IF r[1] = "Ok" THEN << "Ok", r[2], p + w >> ELSE << "Err" >>

ReadName(b, p) ==
    LET l == ReadUsize(b, p)
    IN  IF l[1] = "Ok" THEN ReadText(b, l[3], l[2]) ELSE << "Err" >>

ReadPayload(b, p, tag, declared) ==
    IF tag = TAG_STRING
    THEN LET r == ReadText(b, p, declared)
         IN  IF r[1] = "Ok" THEN << "Ok", << "String", r[2] >>, r[3] >> ELSE << "Err" >>
    ELSE IF tag = TAG_BOOL
    THEN IF Has(b, p, 1) /\ b[p] \in { 0, 1 }
         THEN << "Ok", << "Bool", b[p] = 1 >>, p + 1 >> ELSE << "Err" >>
    ELSE IF tag = TAG_INT32
    THEN LET r == ReadI32(b, p)
         IN  IF r[1] = "Ok" THEN << "Ok", << "I32", r[2] >>, r[3] >> ELSE << "Err" >>
    ELSE IF tag = TAG_INT64
    THEN LET r == ReadI64(b, p)
         IN  IF r[1] = "Ok" THEN << "Ok", << "I64", r[2] >>, r[3] >> ELSE << "Err" >>
    ELSE IF tag = TAG_FLOAT
    THEN LET r == ReadI32(b, p)
         IN  IF r[1] = "Ok" /\ r[2] >= 0
             THEN << "Ok", << "Float", r[2] >>, r[3] >> ELSE << "Err" >>
    ELSE IF tag = TAG_VEC3I
    THEN IF ~Has(b, p, 12) THEN << "Err" >>
         ELSE << "Ok",
                 << "Vec3i", ReadI32(b, p)[2], ReadI32(b, p + 4)[2], ReadI32(b, p + 8)[2] >>,
                 p + 12 >>
    ELSE IF Has(b, p, declared)
         THEN << "Ok", << "Unknown", tag, SubSeq(b, p, p + declared - 1) >>, p + declared >>
         ELSE << "Err" >>

ReadEntry(b, p) ==
    LET key == ReadName(b, p)
    IN  IF key[1] # "Ok" THEN << "Err" >>
        ELSE LET tag == ReadName(b, key[3])
             IN  IF tag[1] # "Ok" THEN << "Err" >>
                 ELSE LET l == ReadUsize(b, tag[3])
                      IN  IF l[1] # "Ok" THEN << "Err" >>
                          ELSE LET v == ReadPayload(b, l[3], tag[2], l[2])
                               IN  IF v[1] # "Ok" THEN << "Err" >>
                                   ELSE << "Ok", << key[2], v[2] >>, v[3] >>

RECURSIVE ReadEntries(_, _, _)
ReadEntries(b, p, count) ==
    IF count = 0 THEN << "Ok", << >>, p >>
    ELSE LET e == ReadEntry(b, p)
         IN  IF e[1] # "Ok" THEN << "Err" >>
             ELSE LET r == ReadEntries(b, e[3], count - 1)
                  IN  IF r[1] # "Ok" THEN << "Err" >>
                      ELSE << "Ok", << e[2] >> \o r[2], r[3] >>

\* The entries of a metadata block starting at position p.
ReadMetadata(b, p) ==
    LET c == ReadUsize(b, p)
    IN  IF c[1] = "Ok" THEN ReadEntries(b, c[3], c[2]) ELSE << "Err" >>

(***************************************************************************)
(* Properties.                                                             *)
(***************************************************************************)
ResolvedNames == { gds[k].name : k \in 1 .. Len(gds) }

\* C1: the names resolved in the second pass are non-empty and pairwise
\* distinct, and every insert into unique_names adds a name that was not in
\* it: the set holds exactly one name per descriptor built so far.
C1_ResolvedNamesUnique ==
    /\ \A k \in 1 .. Len(gds) : gds[k].name # << >>
    /\ \A a, b \in 1 .. Len(gds) : a # b => gds[a].name # gds[b].name
    /\ unique_names = ResolvedNames
    /\ Cardinality(unique_names) = Len(gds)

\* Two grids of the empty name and one of another name, all resolved, the
\* second after a retry.
C1_Witness ==
    /\ pc = "done"
    /\ Len(grids) = 3
    /\ grids[1].name = << >>
    /\ grids[2].name = << >>
    /\ grids[3].name = << 97 >>
    /\ Len(gds) = 3
    /\ gds[2].name = add_suffix(<< >>, 1)

\* C2: name resolution terminates: a call that has not ended can always
\* take a step that changes its state, so the retry loop cannot spin on one
\* candidate.
C2_ResolutionTerminates == pc \in { "done", "panic" } \/ ENABLED << Next >>_vars

DistinctNonEmptyNames ==
    /\ \A k \in 1 .. Len(grids) : grids[k].name # << >>
    /\ \A a, b \in 1 .. Len(grids) : a # b => grids[a].name # grids[b].name

\* C3: when the requested names are non-empty and pairwise distinct, every
\* grid's resolved name is its requested name, the candidate tested by the
\* loop is the requested name, and the loop body is never entered.
C3_DistinctNamesKept ==
    DistinctNonEmptyNames =>
        /\ \A k \in 1 .. Len(gds) : gds[k].name = grids[k].name
        /\ pc = "w_loop" =>
              /\ name = grids[grid_i].name
              /\ ~NameTaken(name, unique_names)

\* Two grids named "a1" and "a", both resolved.
C3_Witness ==
    /\ pc = "done"
    /\ Len(grids) = 2
    /\ grids[1].name = << 97, 49 >>
    /\ grids[2].name = << 97 >>
    /\ Len(gds) = 2

\* The earlier grids that reference the tree of grid b.
EarlierSharers(b) == { a \in 1 .. (b - 1) : grids[a].tree = grids[b].tree }
FirstSharer(b) == CHOOSE a \in EarlierSharers(b) : \A c \in EarlierSharers(b) : a <= c

\* C4: a grid whose tree an earlier grid of the call references has the
\* first such grid's resolved name as instance parent and that grid's
\* offsets; a grid whose tree was not seen before has an empty instance
\* parent.
C4_SharedTreeInstanced ==
    \A b \in 1 .. Len(gds) :
        IF EarlierSharers(b) = {}
        THEN gds[b].instance_parent = << >>
        ELSE /\ gds[b].instance_parent = gds[FirstSharer(b)].name
             /\ gds[b].grid_pos = gds[FirstSharer(b)].grid_pos
             /\ gds[b].block_pos = gds[FirstSharer(b)].block_pos
             /\ gds[b].end_pos = gds[FirstSharer(b)].end_pos

\* The length a metadata entry declares: the text's length for a text, the
\* blob's length for an opaque value, zero for every other variant.
ExpectedDeclaredLen(value) ==
    IF Variant(value) = "String" THEN StrLen(value[2])
    ELSE IF Variant(value) = "Unknown" THEN Len(value[3])
    ELSE 0

\* The field written last, read back from the stream.
LastUsize == ReadUsize(stream, Len(stream) - USIZE_BYTES + 1)

\* C5: once the length field of an entry is written, it reads back as the
\* text's length for a text value, the blob's length for an opaque value and
\* zero for a bool, int32, int64, float or vec3i value.
C5_DeclaredLength ==
    pc = "md_payload" =>
        /\ LastUsize[1] = "Ok"
        /\ LastUsize[2] = ExpectedDeclaredLen(EntryValue(md_i))

\* The length field of a vec3i entry that follows a text entry of two bytes.
C5_Witness ==
    /\ pc = "md_payload"
    /\ md_i = 2
    /\ Variant(EntryValue(1)) = "String"
    /\ StrLen(EntryValue(1)[2]) = 2
    /\ Variant(EntryValue(2)) = "Vec3i"
    /\ LastUsize = << "Ok", 0, Len(stream) + 1 >>

\* C6: when the codec has ended, the stream read against the layout is the
\* mapping's entries, in order, and nothing else: the count is exact and an
\* empty mapping is a zero count alone.
C6_RoundTrip ==
    pc \in { "done", "panic" } =>
        /\ ReadMetadata(stream, 1) = << "Ok", metadata, Len(stream) + 1 >>
        /\ metadata = << >> => stream = UsizeBytes(0)

\* The length of the header before the UUID field: 8 + 4 + 4 + 4 + 1.
HeaderPrefixLen == Len(Flatten(HeaderChunks(TRUE)))
\* The UUID field of the stream, and whatever follows it.
UuidField == SubSeq(stream, HeaderPrefixLen + 1, Len(stream))
IsHexDigit(b) == b \in (48 .. 57) \cup (65 .. 70) \cup (97 .. 102)
HyphenPositions == { 8, 13, 18, 23 }

\* C7: after new, the UUID field is 36 characters and ends the stream:
\* hyphens at positions 8, 13, 18 and 23, a hexadecimal digit at each other
\* position, no terminator byte after it.
C7_UuidField ==
    pc = "done" =>
        /\ Len(UuidField) = UUID_FIELD_LEN
        /\ \A p \in 0 .. (UUID_FIELD_LEN - 1) :
              IF p \in HyphenPositions
              THEN UuidField[p + 1] = 45
              ELSE IsHexDigit(UuidField[p + 1])

\* A UUID holding hexadecimal letters and decimal digits.
C7_Witness ==
    /\ pc = "done"
    /\ ret = "ok"
    /\ \E p \in 1 .. Len(UuidField) : UuidField[p] = 65
    /\ \E p \in 1 .. Len(UuidField) : UuidField[p] = 70
    /\ \E p \in 1 .. Len(UuidField) : UuidField[p] = 57

\* C8: a call during which an operation on the stream failed does not
\* report success.
C8_IoErrorReported == ioFailed => ret # "true"

\* The position after the archive metadata and the grid count.
AfterGridCount ==
    LET m == ReadMetadata(stream, Len(HeaderStream) + 1)
    IN  IF m[1] = "Ok" THEN ReadUsize(stream, m[3]) ELSE << "Err" >>

\* C9: after a successful write the stream holds the archive metadata, the
\* grid count and then one descriptor record per grid, in order: nothing
\* for no grids, and otherwise bytes that start with the first record, whose
\* first field is the first grid's resolved name.
C9_ArchiveLayout ==
    (pc = "done" /\ ret = "true") =>
        /\ ReadMetadata(stream, Len(HeaderStream) + 1)[1] = "Ok"
        /\ ReadMetadata(stream, Len(HeaderStream) + 1)[2] = metadata
        /\ AfterGridCount[1] = "Ok"
        /\ AfterGridCount[2] = Len(grids)
        /\ IF Len(grids) = 0
           THEN AfterGridCount[3] = Len(stream) + 1
           ELSE ReadName(stream, AfterGridCount[3]) =
                    << "Ok", gds[1].name,
                       AfterGridCount[3] + USIZE_BYTES + StrLen(gds[1].name) >>

====
